---- MODULE Spec2Model ----
(***************************************************************************)
(* env2doc: static discovery of EnvParse accessor calls.                   *)
(*                                                                         *)
(* The repository carries two generations of the command line script that  *)
(* are modelled here:                                                      *)
(*   "main.js"   src/main.js                (single `arg`, fixed template) *)
(*   "part_001"  src/unnamed/part_001:1-305 (`args`, buildTemplate, print) *)
(* A run executes one of them; `script` says which.  JavaScript strings    *)
(* are TLA+ strings, JavaScript values are tagged records, the syntax tree *)
(* handed over by esprima is a record per node with the fields the code    *)
(* reads.  The file system, the parser and the traversal are the           *)
(* environment: every read of them draws its answer from a small set.      *)
(* Column padding of the Markdown table (padStart/padEnd) only adds blanks *)
(* and is left out: a row is the record of its five cell texts.            *)
(***************************************************************************)
EXTENDS Naturals, Sequences, FiniteSets, TLC

VARIABLES
  script,      \* which script of the repository runs
  output,      \* parseArgs: --output
  argvSort,    \* whether -s/--sort was given on the command line
  sort,        \* parseArgs: values.sort
  dependency,  \* parseArgs: values.dependency
  pc,          \* position of the run
  packageJson, \* scanDeps: the manifest of this entry (undefined in the root scan)
  srcIdx,      \* scanSources: number of sources of this unit already taken
  callIdx,     \* visit: number of call expressions of this file already visited
  comments,    \* scanSources: trimmed comments of the file being visited
  node,        \* visitCallExpression: path.node of the last call visited
  data,        \* scanSources: the Registry, a JS object as its property list
  out,         \* console.log: the sections written so far
  err,         \* console.error: the diagnostics written so far
  walk         \* scanDeps: per open directory, the entries already read

vars == <<script, output, argvSort, sort, dependency, pc, packageJson, srcIdx,
          callIdx, comments, node, data, out, err, walk>>

\* Bounds of the model.
MaxFiles == 2    \* sources per scan unit
MaxCalls == 2    \* call expressions per source file
MaxEntries == 2  \* directory entries per directory of the package store
MaxDepth == 1    \* nesting of manifest-less directories below node_modules

(***************************************************************************)
(* JavaScript strings                                                      *)
(***************************************************************************)

\* The characters of the strings of the model, in ascending UTF-16 code unit order.
CodeOrder == " $,-.0123456789:@ABCDEFGHIJKLMNOPQRSTUVWXYZ_abcdefghijklmnopqrstuvwxyz{}"

CharCode(c) == CHOOSE i \in 1..Len(CodeOrder) : SubSeq(CodeOrder, i, i) = c

WhiteSpace == {" ", "\t", "\n"}

\* String.prototype.startsWith
StartsWith(s, p) == Len(p) <= Len(s) /\ SubSeq(s, 1, Len(p)) = p

RECURSIVE TrimStart(_)
TrimStart(s) ==
  IF Len(s) > 0 /\ SubSeq(s, 1, 1) \in WhiteSpace THEN TrimStart(Tail(s)) ELSE s

RECURSIVE TrimEnd(_)
TrimEnd(s) ==
  IF Len(s) > 0 /\ SubSeq(s, Len(s), Len(s)) \in WhiteSpace
  THEN TrimEnd(SubSeq(s, 1, Len(s) - 1)) ELSE s

\* String.prototype.trim
Trim(s) == TrimEnd(TrimStart(s))

\* String.prototype.indexOf, 1-based; 0 when p does not occur in s
IndexOf(s, p) ==
  LET hits == {i \in 1..(Len(s) + 1) :
                 i + Len(p) - 1 <= Len(s) /\ SubSeq(s, i, i + Len(p) - 1) = p}
  IN IF hits = {} THEN 0 ELSE CHOOSE i \in hits : \A j \in hits : i <= j

\* String.prototype.replace with a string pattern: the first occurrence only
Replace(s, p, r) ==
  LET i == IndexOf(s, p)
  IN IF i = 0 THEN s
     ELSE SubSeq(s, 1, i - 1) \o r \o SubSeq(s, i + Len(p), Len(s))

\* s < t in the order Array.prototype.sort uses without a comparator
RECURSIVE StrLess(_, _)
StrLess(s, t) ==
  IF Len(t) = 0 THEN FALSE
  ELSE IF Len(s) = 0 THEN TRUE
  ELSE IF SubSeq(s, 1, 1) = SubSeq(t, 1, 1) THEN StrLess(Tail(s), Tail(t))
  ELSE CharCode(SubSeq(s, 1, 1)) < CharCode(SubSeq(t, 1, 1))

RECURSIVE Digits(_)
Digits(n) ==
  IF n < 10 THEN SubSeq("0123456789", n + 1, n + 1)
  ELSE Digits(n \div 10) \o SubSeq("0123456789", (n % 10) + 1, (n % 10) + 1)

(***************************************************************************)
(* JavaScript values                                                       *)
(***************************************************************************)

Undefined == [t |-> "undefined"]
Str(s) == [t |-> "string", s |-> s]
Num(n) == [t |-> "number", n |-> n]
Bool(b) == [t |-> "boolean", b |-> b]
Arr(a) == [t |-> "array", a |-> a]

RECURSIVE Join(_)
RECURSIVE ToStr(_)
\* Array.prototype.join(","): undefined elements give the empty string
Join(a) ==
  IF Len(a) = 0 THEN ""
  ELSE LET h == IF a[1] = Undefined THEN "" ELSE ToStr(a[1])
       IN IF Len(a) = 1 THEN h ELSE h \o "," \o Join(Tail(a))

\* `${v}`, and the property key v names
ToStr(v) ==
  CASE v.t = "string" -> v.s
    [] v.t = "number" -> Digits(v.n)
    [] v.t = "boolean" -> (IF v.b THEN "true" ELSE "false")
    [] v.t = "array" -> Join(v.a)
    [] OTHER -> "undefined"

\* if (v): undefined, "", 0 and false are falsy
Truthy(v) ==
  CASE v.t = "undefined" -> FALSE
    [] v.t = "string" -> v.s # ""
    [] v.t = "number" -> v.n # 0
    [] v.t = "boolean" -> v.b
    [] OTHER -> TRUE

(***************************************************************************)
(* JavaScript arrays and objects                                           *)
(***************************************************************************)

\* Array.prototype.sort (stable), the order given as less[i][j]: s[i] sorts
\* before s[j].  The element at index i lands behind the elements that are
\* less and the equals that came before it.
SortBy(s, less) ==
  LET rank(i) == 1 + Cardinality({j \in 1..Len(s) :
                        less[j][i] \/ (~less[i][j] /\ j < i)})
  IN [p \in 1..Len(s) |-> s[CHOOSE i \in 1..Len(s) : rank(i) = p]]

\* Array.prototype.sort without a compare function: by code units
DefaultSort(s) ==
  SortBy(s, [i \in 1..Len(s) |-> [j \in 1..Len(s) |-> StrLess(s[i], s[j])]])

\* The numerals of one length order like their numbers.
NumeralLess(a, b) == Len(a) < Len(b) \/ (Len(a) = Len(b) /\ StrLess(a, b))

\* An "array index" property name: the canonical numeral of an integer
\* below 2^32 - 1.  Such names come first when an object's keys are listed.
IsArrayIndex(k) ==
  /\ Len(k) >= 1
  /\ \A i \in 1..Len(k) : IndexOf("0123456789", SubSeq(k, i, i)) # 0
  /\ (Len(k) > 1 => SubSeq(k, 1, 1) # "0")
  /\ NumeralLess(k, "4294967295")

\* A JS object is the list of its own properties, [k |-> name, v |-> value],
\* in the order of their creation.
HasKey(obj, k) == \E i \in 1..Len(obj) : obj[i].k = k

Get(obj, k) == obj[CHOOSE i \in 1..Len(obj) : obj[i].k = k].v

\* obj[k] = v: an existing property keeps its place
Put(obj, k, v) ==
  IF HasKey(obj, k)
  THEN [i \in 1..Len(obj) |-> IF obj[i].k = k THEN [k |-> k, v |-> v] ELSE obj[i]]
  ELSE Append(obj, [k |-> k, v |-> v])

Names(obj) == [i \in 1..Len(obj) |-> obj[i].k]

\* Object.keys: array indices in ascending numeric order, then the other
\* names in creation order (OrdinaryOwnPropertyKeys)
ObjectKeys(obj) ==
  LET ks == Names(obj)
      idx == SelectSeq(ks, IsArrayIndex)
  IN SortBy(idx, [i \in 1..Len(idx) |-> [j \in 1..Len(idx) |-> NumeralLess(idx[i], idx[j])]])
       \o SelectSeq(ks, LAMBDA k : ~IsArrayIndex(k))

(***************************************************************************)
(* The syntax tree: the fields of esprima's nodes that the code reads      *)
(***************************************************************************)

\* The element esprima lists for an elision of an array literal: null
Hole == [type |-> "null"]

\* node.value; undefined on a node that has no such field
NodeValue(n) == IF "value" \in DOMAIN n THEN n.value ELSE Undefined

\* `${node.name}` inside a template literal
NodeName(n) == IF "name" \in DOMAIN n THEN n.name ELSE "undefined"

\* callee.type === 'MemberExpression' && object?.property?.name === 'EnvParse'
IsEnvParseCall(n) ==
  /\ n.callee.type = "MemberExpression"
  /\ "property" \in DOMAIN n.callee.object
  /\ "name" \in DOMAIN n.callee.object.property
  /\ n.callee.object.property.name = "EnvParse"

(***************************************************************************)
(* Pure functions of the scripts                                           *)
(***************************************************************************)

\* A test that would know one required kind only
isRequired_string(type) == type = "envStringRequired"

isRequired(type) == type \in {"envStringRequired", "envIntRequired"}

getType(type) ==
  CASE type \in {"envString", "envStringRequired", "envStringOptions",
                 "envStringOptional"} -> "string"
    [] type = "envStringList" -> "string[]"
    [] type = "envBool" -> "boolean"
    [] type \in {"envIntRequired", "envInt"} -> "integer"
    [] OTHER -> "unknown (" \o type \o ")"

\* part_001: `${args[1]}`, for four kinds only
getDefault(type, args) ==
  IF type \in {"envString", "envBool", "envInt", "envStringList"}
  THEN ToStr(IF Len(args) >= 2 THEN args[2] ELSE Undefined)
  ELSE ""

\* part_001: the factor of the line number in a part's position
PosLineFactor == 1000

Pos(n) == n.loc.start.line * PosLineFactor + n.loc.start.column

RECURSIVE JoinParts(_)
JoinParts(parts) ==
  IF Len(parts) = 0 THEN "" ELSE parts[1].value \o JoinParts(Tail(parts))

\* part_001: the quasis, then the expressions, sorted by position and joined
buildTemplate(argument) ==
  LET quasis == [i \in 1..Len(argument.quasis) |->
                   [pos |-> Pos(argument.quasis[i]),
                    value |-> argument.quasis[i].value.cooked]]
      exprs == [i \in 1..Len(argument.expressions) |->
                   [pos |-> Pos(argument.expressions[i]),
                    value |-> "${" \o NodeName(argument.expressions[i]) \o "}"]]
      parts == quasis \o exprs
  IN JoinParts(SortBy(parts,
       [i \in 1..Len(parts) |-> [j \in 1..Len(parts) |-> parts[i].pos < parts[j].pos]]))

\* ast.comments.map(c => c.value.trim())
TrimAll(values) == [i \in 1..Len(values) |-> Trim(values[i])]

\* comments.filter(c => c.startsWith(`${name}:`)).at(0)
getComment(cs, name) ==
  LET hits == SelectSeq(cs, LAMBDA c : StartsWith(c, ToStr(name) \o ":"))
  IN IF Len(hits) = 0 THEN Undefined ELSE Str(hits[1])

\* const comment = getComment(name);
\* if (comment) obj.comment = comment.replace(`${name}:`, '').trim()
commentOf(cs, name) ==
  LET comment == getComment(cs, name)
  IN IF Truthy(comment)
     THEN Str(Trim(Replace(comment.s, ToStr(name) \o ":", "")))
     ELSE Undefined

(***************************************************************************)
(* visitCallExpression                                                     *)
(***************************************************************************)

\* main.js: arguments.map(arg => ...), the value kept for one argument
mapArg(arg) ==
  CASE arg.type = "Literal" -> arg.value
    [] arg.type = "ArrayExpression" ->
         Arr([i \in 1..Len(arg.elements) |-> NodeValue(arg.elements[i])])
    [] OTHER -> Undefined

\* part_001: the value pushed to obj.args for one argument
pushArg(argument) ==
  CASE argument.type = "TemplateLiteral" -> Str(buildTemplate(argument))
    [] argument.type = "Literal" -> argument.value
    [] argument.type = "ArrayExpression" ->
         Arr([i \in 1..Len(argument.elements) |-> NodeValue(argument.elements[i])])
    [] argument.type = "Identifier" -> Str("${" \o argument.name \o "}")
    [] argument.type = "CallExpression" -> Str("_function_")
    [] OTHER -> Str(argument.type \o "_" \o NodeName(argument))

\* elements.map(e => e.value) reads a field of null: a TypeError
mapThrows(arg) ==
  /\ arg.type = "ArrayExpression"
  /\ \E i \in 1..Len(arg.elements) : arg.elements[i] = Hole

Threw == [threw |-> TRUE]
Returned(d) == [threw |-> FALSE, data |-> d]

\* main.js: the record built for a recognized call whose first argument is a
\* template literal with at least one expression
templateObj(n, cs) ==
  LET t == n.arguments[1]
      key == t.quasis[1].value.cooked \o "${" \o NodeName(t.expressions[1]) \o "}"
               \o t.quasis[2].value.cooked
      commentKey == t.quasis[1].value.cooked \o t.quasis[2].value.cooked
  IN IF Len(t.quasis) = 2
     THEN [type |-> n.callee.property.name, key |-> Str(key),
           comment |-> commentOf(cs, Str(commentKey)), arg |-> Undefined]
     ELSE [type |-> n.callee.property.name, key |-> Undefined,
           comment |-> Undefined, arg |-> Undefined]

\* main.js: the record built for a recognized call with another first argument
literalObj(n, cs) ==
  LET arg == n.arguments[1]
      rest == Tail(n.arguments)
  IN [type |-> n.callee.property.name, key |-> NodeValue(arg),
      comment |-> commentOf(cs, NodeValue(arg)),
      arg |-> IF Len(rest) = 0 THEN Undefined ELSE mapArg(rest[1])]

\* A registration that would merge into the entry of the key, keeping the
\* earlier comment when the new record has none
register_merge(d, obj) ==
  LET k == ToStr(obj.key)
  IN IF HasKey(d, k) /\ obj.comment = Undefined
     THEN Put(d, k, [obj EXCEPT !.comment = Get(d, k).comment])
     ELSE Put(d, k, obj)

\* main.js: data[obj.key] = obj
register_main(d, obj) == Put(d, ToStr(obj.key), obj)

\* main.js: the handler; reading a field of undefined throws a TypeError
visitCallExpression_main(n, cs, d) ==
  IF ~IsEnvParseCall(n) THEN Returned(d)
  ELSE IF Len(n.arguments) = 0 THEN Threw
  ELSE IF n.arguments[1].type = "TemplateLiteral"
  THEN IF Len(n.arguments[1].expressions) = 0 THEN Threw
       ELSE Returned(register_main(d, templateObj(n, cs)))
  ELSE IF \E i \in 2..Len(n.arguments) : mapThrows(n.arguments[i]) THEN Threw
  ELSE Returned(register_main(d, literalObj(n, cs)))

\* part_001: the record built for a recognized call
argsObj(n, cs) ==
  LET args == [i \in 1..Len(n.arguments) |-> pushArg(n.arguments[i])]
      key == IF Len(args) = 0 THEN Undefined ELSE args[1]
  IN [type |-> n.callee.property.name, args |-> args, comment |-> commentOf(cs, key)]

\* part_001: const key = obj.args[0]
keyOf(obj) == IF Len(obj.args) = 0 THEN Undefined ELSE obj.args[1]

\* part_001: data[key] = obj
register_part001(d, obj) == Put(d, ToStr(keyOf(obj)), obj)

\* part_001: the handler
visitCallExpression_part001(n, cs, d) ==
  IF ~IsEnvParseCall(n) THEN Returned(d)
  ELSE IF \E i \in 1..Len(n.arguments) : mapThrows(n.arguments[i]) THEN Threw
  ELSE Returned(register_part001(d, argsObj(n, cs)))

visitCallExpression(n, cs, d) ==
  IF script = "main.js" THEN visitCallExpression_main(n, cs, d)
  ELSE visitCallExpression_part001(n, cs, d)

(***************************************************************************)
(* Output                                                                  *)
(***************************************************************************)

\* parseArgs: part_001 declares sort with default: true, main.js without
parseArgsSort(scr, given) == IF scr = "part_001" THEN TRUE ELSE given

\* const ks = Object.keys(data); if (sort) ks.sort()
keysOf(d, srt) == IF srt THEN DefaultSort(ObjectKeys(d)) ELSE ObjectKeys(d)

\* depName ?? 'Environment variables'
headingOf(depName) == IF depName = Undefined THEN "Environment variables" ELSE depName.s

\* `${v !== undefined ? v : ''}`
cell(v) == IF v = Undefined THEN "" ELSE ToStr(v)

\* main.js: rows of the entries whose own key field is truthy
row_main(env) ==
  [ENV |-> env.key.s, type |-> getType(env.type), default |-> cell(env.arg),
   required |-> IF isRequired(env.type) THEN "*" ELSE "", notes |-> cell(env.comment)]

\* main.js: env.key.padEnd throws when env.key is truthy and no string
printMDThrows_main(d) ==
  \E i \in 1..Len(d) : Truthy(d[i].v.key) /\ d[i].v.key.t # "string"

printMD_main(d, depName, srt) ==
  LET ks == SelectSeq(keysOf(d, srt), LAMBDA k : Truthy(Get(d, k).key))
  IN [format |-> "md", heading |-> headingOf(depName),
      rows |-> [i \in 1..Len(ks) |-> row_main(Get(d, ks[i]))]]

row_part001(key, env) ==
  [ENV |-> key, type |-> getType(env.type), default |-> getDefault(env.type, env.args),
   required |-> IF isRequired(env.type) THEN "*" ELSE "", notes |-> cell(env.comment)]

printMD_part001(d, depName, srt) ==
  LET ks == keysOf(d, srt)
  IN [format |-> "md", heading |-> headingOf(depName),
      rows |-> [i \in 1..Len(ks) |-> row_part001(ks[i], Get(d, ks[i]))]]

\* JSON.stringify(data, null, 3): the properties in Object.keys order
stringify(d) ==
  LET ks == ObjectKeys(d)
  IN [format |-> "json", entries |-> [i \in 1..Len(ks) |-> [k |-> ks[i], v |-> Get(d, ks[i])]]]

\* part_001: print(data, arg), the sections it writes
print(d, arg, fmt, srt) ==
  IF Len(ObjectKeys(d)) = 0 THEN <<>>
  ELSE IF fmt = "md" THEN <<printMD_part001(d, arg, srt)>>
  ELSE <<stringify(d)>>

\* main.js: switch (output) after the root scan
rootOutput_main(d, fmt, srt) ==
  IF fmt = "md" THEN <<printMD_main(d, Undefined, srt)>> ELSE <<stringify(d)>>

(***************************************************************************)
(* The package manifests read by scanDeps                                  *)
(***************************************************************************)

Saddlebag == "@fluidware-it/saddlebag"

\* main.js: packageJson.dependencies?.['@fluidware-it/saddlebag']
usesSaddlebag_main(json) == Truthy(json.dependencies)

\* part_001: the package itself, a dependency or a peer dependency
usesSaddlebag_part001(json) ==
  \/ json.name = Str(Saddlebag)
  \/ Truthy(json.dependencies)
  \/ Truthy(json.peerDependencies)

usesSaddlebag(json) ==
  IF script = "main.js" THEN usesSaddlebag_main(json)
  ELSE usesSaddlebag_part001(json)

\* packageJson.name + '@' + packageJson.version
depName(json) == ToStr(json.name) \o "@" \o ToStr(json.version)

(***************************************************************************)
(* The run                                                                 *)
(***************************************************************************)

NoNode == [type |-> "none"]

Init(Scripts, Outputs, SortArgs, Dependency) ==
  /\ script \in Scripts
  /\ output \in Outputs
  /\ argvSort \in SortArgs
  /\ sort = parseArgsSort(script, argvSort)
  /\ dependency \in Dependency
  /\ pc = "open"
  /\ packageJson = Undefined
  /\ srcIdx = 0
  /\ callIdx = 0
  /\ comments = <<>>
  /\ node = NoNode
  /\ data = <<>>
  /\ out = <<>>
  /\ err = <<>>
  /\ walk = <<>>

flags == <<script, output, argvSort, sort, dependency>>

\* scanSources: statSync/readdirSync succeed, `sources` is collected
scanSourcesOpen ==
  /\ pc = "open"
  /\ pc' = "loop"
  /\ srcIdx' = 0
  /\ data' = <<>>
  /\ UNCHANGED <<flags, packageJson, callIdx, comments, node, out, err, walk>>

\* scanSources: the path cannot be opened: console.error, process.exit(1)
scanSourcesFail ==
  /\ pc = "open"
  /\ pc' = "exit1"
  /\ err' = Append(err, "failed to open path")
  /\ UNCHANGED <<flags, packageJson, srcIdx, callIdx, comments, node, data, out, walk>>

\* A catch that would report the failure and leave the loop
ParseFail_break ==
  /\ pc = "loop"
  /\ srcIdx < MaxFiles
  /\ srcIdx' = MaxFiles
  /\ err' = Append(err, "Failed to parse")
  /\ UNCHANGED <<flags, pc, packageJson, callIdx, comments, node, data, out, walk>>

\* for (const source of sources): esprima.parseScript throws; the catch
\* reports it and continues with the next source
ParseFail ==
  /\ pc = "loop"
  /\ srcIdx < MaxFiles
  /\ srcIdx' = srcIdx + 1
  /\ err' = Append(err, "Failed to parse")
  /\ UNCHANGED <<flags, pc, packageJson, callIdx, comments, node, data, out, walk>>

\* for (const source of sources): the source parses; `values` are its
\* comments' texts
ParseOk(values) ==
  /\ pc = "loop"
  /\ srcIdx < MaxFiles
  /\ pc' = "visit"
  /\ comments' = TrimAll(values)
  /\ callIdx' = 0
  /\ UNCHANGED <<flags, packageJson, srcIdx, node, data, out, err, walk>>

\* visit(ast, ...): the traversal hands the next call expression, n, to the
\* handler.  An exception leaves scanSources: uncaught in the root scan,
\* caught around scanDeps, which reports it and calls process.exit(1).
Visit(n) ==
  /\ pc = "visit"
  /\ callIdx < MaxCalls
  /\ node' = n
  /\ LET r == visitCallExpression(n, comments, data)
     IN IF r.threw
        THEN /\ pc' = IF packageJson = Undefined THEN "crashed" ELSE "exit1"
             /\ err' = Append(err, IF packageJson = Undefined THEN "TypeError"
                                   ELSE "failed to open path")
             /\ UNCHANGED <<callIdx, data>>
        ELSE pc' = pc /\ callIdx' = callIdx + 1 /\ data' = r.data /\ err' = err
  /\ UNCHANGED <<flags, packageJson, srcIdx, comments, out, walk>>

\* visit(ast, ...) returns: the next source
EndVisit ==
  /\ pc = "visit"
  /\ pc' = "loop"
  /\ srcIdx' = srcIdx + 1
  /\ callIdx' = 0
  /\ comments' = <<>>
  /\ node' = NoNode
  /\ UNCHANGED <<flags, packageJson, data, out, err, walk>>

\* The sections the root scan writes
rootOutput(d) ==
  IF script = "main.js" THEN rootOutput_main(d, output, sort)
  ELSE print(d, Undefined, output, sort)

\* The sections a dependency scan writes: main.js calls printMD whatever
\* the output format is
depOutput(d, name) ==
  IF script = "main.js" THEN <<printMD_main(d, Str(name), sort)>>
  ELSE print(d, Str(name), output, sort)

\* const data = scanSources(path); the root output; if (dependency) scanDeps
RootOutput ==
  /\ pc = "loop"
  /\ packageJson = Undefined
  /\ IF script = "main.js" /\ output = "md" /\ printMDThrows_main(data)
     THEN pc' = "crashed" /\ err' = Append(err, "TypeError") /\ UNCHANGED <<out, walk>>
     ELSE /\ out' = out \o rootOutput(data)
          /\ pc' = IF dependency = TRUE THEN "deps" ELSE "done"
          /\ walk' = IF dependency = TRUE THEN <<0>> ELSE <<>>
          /\ err' = err
  /\ UNCHANGED <<flags, packageJson, srcIdx, callIdx, comments, node, data>>

\* scanDeps: const data = scanSources(_dir); the package's output
DepOutput ==
  /\ pc = "loop"
  /\ packageJson # Undefined
  /\ IF script = "main.js" /\ printMDThrows_main(data)
     THEN /\ pc' = "exit1"
          /\ err' = Append(err, "failed to open path")
          /\ UNCHANGED <<out, packageJson>>
     ELSE /\ out' = out \o depOutput(data, depName(packageJson))
          /\ pc' = "deps"
          /\ packageJson' = Undefined
          /\ err' = err
  /\ UNCHANGED <<flags, srcIdx, callIdx, comments, node, data, walk>>

\* scanDeps: statSync, readdirSync or JSON.parse throws; the catch around
\* scanDeps('node_modules') reports it and calls process.exit(1)
scanDepsThrow ==
  /\ pc = "deps"
  /\ pc' = "exit1"
  /\ err' = Append(err, "failed to open path")
  /\ UNCHANGED <<flags, packageJson, srcIdx, callIdx, comments, node, data, out, walk>>

Top == walk[Len(walk)]
Taken == [walk EXCEPT ![Len(walk)] = @ + 1]

\* for (const file of files): an entry that is no directory
DepFile ==
  /\ pc = "deps"
  /\ Top < MaxEntries
  /\ walk' = Taken
  /\ packageJson' = Undefined
  /\ UNCHANGED <<flags, pc, srcIdx, callIdx, comments, node, data, out, err>>

\* for (const file of files): a directory without package.json: scanDeps on it
DepDirectory ==
  /\ pc = "deps"
  /\ Top < MaxEntries
  /\ Len(walk) <= MaxDepth
  /\ walk' = Append(Taken, 0)
  /\ packageJson' = Undefined
  /\ UNCHANGED <<flags, pc, srcIdx, callIdx, comments, node, data, out, err>>

\* for (const file of files): a directory whose package.json reads as json
DepPackage(json) ==
  /\ pc = "deps"
  /\ Top < MaxEntries
  /\ walk' = Taken
  /\ packageJson' = json
  /\ pc' = IF usesSaddlebag(json) /\ Truthy(json.main) THEN "open" ELSE "deps"
  /\ UNCHANGED <<flags, srcIdx, callIdx, comments, node, data, out, err>>

\* scanDeps returns: the directory has no further entry
DepReturn ==
  /\ pc = "deps"
  /\ walk' = SubSeq(walk, 1, Len(walk) - 1)
  /\ pc' = IF Len(walk) = 1 THEN "done" ELSE "deps"
  /\ packageJson' = Undefined
  /\ UNCHANGED <<flags, srcIdx, callIdx, comments, node, data, out, err>>

ScanNext(Calls, CommentValues) ==
  \/ scanSourcesOpen
  \/ scanSourcesFail
  \/ ParseFail
  \/ \E values \in CommentValues : ParseOk(values)
  \/ \E n \in Calls : Visit(n)
  \/ EndVisit
  \/ RootOutput

DepsNext(Manifests) ==
  \/ DepOutput
  \/ scanDepsThrow
  \/ DepFile
  \/ DepDirectory
  \/ \E json \in Manifests : DepPackage(json)
  \/ DepReturn

(***************************************************************************)
(* The inputs: syntax trees, comments and manifests                        *)
(***************************************************************************)

Ident(name) == [type |-> "Identifier", name |-> name]
Member(object, name) ==
  [type |-> "MemberExpression", object |-> object, property |-> Ident(name)]
Call(callee, arguments) ==
  [type |-> "CallExpression", callee |-> callee, arguments |-> arguments]
Lit(v) == [type |-> "Literal", value |-> v]
At(line, column) == [start |-> [line |-> line, column |-> column]]
Quasi(line, column, cooked) ==
  [type |-> "TemplateElement", value |-> [cooked |-> cooked], loc |-> At(line, column)]
IdentAt(line, column, name) ==
  [type |-> "Identifier", name |-> name, loc |-> At(line, column)]
Template(quasis, expressions) ==
  [type |-> "TemplateLiteral", quasis |-> quasis, expressions |-> expressions]

\* saddlebag_1.EnvParse.<kind>(...), as compiled TypeScript writes it
Accessor(kind, arguments) ==
  Call(Member(Member(Ident("saddlebag_1"), "EnvParse"), kind), arguments)
\* EnvParse.<kind>(...)
BareAccessor(kind, arguments) == Call(Member(Ident("EnvParse"), kind), arguments)

\* The calls of the scan specification
ScanCalls ==
  { Accessor("envInt", <<Lit(Str("A")), Lit(Num(8080))>>),
    Accessor("envStringRequired", <<Lit(Str("A"))>>),
    Accessor("envInt", <<Lit(Str("B")), Lit(Num(1)), Lit(Num(2))>>),
    Accessor("envStringList",
      <<Lit(Str("B")),
        [type |-> "ArrayExpression", elements |-> <<Lit(Str("x")), Lit(Str("y"))>>],
        Ident("sep")>>),
    Accessor("envBool", <<>>),
    BareAccessor("envInt", <<Lit(Str("A")), Lit(Num(8080))>>),
    Call(Member(Member(Ident("process"), "env"), "get"), <<Lit(Str("B"))>>),
    Call(Ident("require"), <<Lit(Str("A"))>>) }

ScanComments ==
  { <<>>,
    <<" A: the a ">>,
    <<"AB: other", "A: first", "A:second ">> }

\* `A_${n}_B`, `${m}_${n}`, `A`, and, far right on a long line,
\* `${m}X<newline>${n}`
TemplateCalls ==
  { Accessor("envString",
      <<Template(<<Quasi(1, 20, "A_"), Quasi(1, 26, "_B")>>, <<IdentAt(1, 25, "n")>>)>>),
    Accessor("envString",
      <<Template(<<Quasi(1, 20, ""), Quasi(1, 24, "_"), Quasi(1, 29, "")>>,
                 <<IdentAt(1, 23, "m"), IdentAt(1, 28, "n")>>),
        Lit(Str("d"))>>),
    Accessor("envString", <<Template(<<Quasi(1, 20, "A")>>, <<>>)>>),
    Accessor("envString",
      <<Template(<<Quasi(1, 1000, ""), Quasi(1, 1004, "X\n"), Quasi(2, 3, "")>>,
                 <<IdentAt(1, 1003, "m"), IdentAt(2, 2, "n")>>)>>),
    Accessor("envInt", <<Lit(Str("A_B")), Lit(Num(8080))>>) }

TemplateComments ==
  { <<>>,
    <<"A_B: joined", "A_${n}_B: templated">> }

\* The calls of the output specification
OutputCalls ==
  { Accessor("envString", <<Lit(Str("B"))>>),
    Accessor("envString", <<Lit(Str("A"))>>),
    Accessor("envStringRequired", <<Lit(Str("C"))>>),
    Accessor("envInt", <<Lit(Str("7")), Lit(Num(1))>>),
    Call(Ident("require"), <<Lit(Str("A"))>>) }

OutputComments == { <<>> }

Manifest(name, main, dependencies, peerDependencies) ==
  [name |-> name, version |-> Str("1.2.0"), main |-> main,
   dependencies |-> dependencies, peerDependencies |-> peerDependencies]

\* dependencies / peerDependencies: no entry for saddlebag, a version
\* constraint, or the empty constraint
Manifests ==
  { Manifest(name, main, dependencies, peerDependencies) :
      name \in {Str("P"), Str(Saddlebag)},
      main \in {Undefined, Str("index.js")},
      dependencies \in {Undefined, Str("^1.0.0"), Str("")},
      peerDependencies \in {Undefined, Str("^1.0.0")} }

\* The calls of the dependency specification
DepsCalls ==
  { Accessor("envInt", <<Lit(Str("A")), Lit(Num(8080))>>),
    Call(Ident("require"), <<Lit(Str("A"))>>) }

\* The calls of the table specification: every way a kind treats its
\* arguments, and a member of EnvParse that is no accessor the scripts know
TableCalls ==
  { Accessor("envStringRequired", <<Lit(Str("A"))>>),
    Accessor("envIntRequired", <<Lit(Str("B")), Lit(Num(1))>>),
    Accessor("envInt", <<Lit(Str("A")), Lit(Num(8080))>>),
    Accessor("envString", <<Lit(Str("B"))>>),
    Accessor("envString", <<Lit(Str("A")), Ident("dflt")>>),
    Accessor("envStringOptions",
      <<Lit(Str("C")),
        [type |-> "ArrayExpression", elements |-> <<Lit(Str("x")), Lit(Str("y"))>>]>>),
    Accessor("envFloat", <<Lit(Str("C")), Lit(Num(2))>>) }

\* The calls of the argument specification: after the key, one argument of
\* every shape, and several arguments
ArgCalls ==
  { Accessor("envString", <<Lit(Str("A")), Lit(Str("x"))>>),
    Accessor("envBool", <<Lit(Str("A")), Lit(Bool(FALSE))>>),
    Accessor("envInt", <<Lit(Str("B")), Lit(Num(1)), Lit(Num(2))>>),
    Accessor("envStringList",
      <<Lit(Str("B")),
        [type |-> "ArrayExpression", elements |-> <<Lit(Str("x")), Lit(Str("y"))>>]>>),
    Accessor("envStringList",
      <<Lit(Str("B")),
        [type |-> "ArrayExpression", elements |-> <<Hole, Lit(Str("y"))>>]>>),
    Accessor("envString", <<Lit(Str("A")), Ident("dflt")>>),
    Accessor("envString", <<Lit(Str("A")), Call(Ident("hostname"), <<>>)>>),
    Accessor("envString", <<Lit(Str("B")), Member(Ident("os"), "EOL")>>) }

(***************************************************************************)
(* Specifications                                                          *)
(***************************************************************************)

Scripts == {"main.js", "part_001"}

\* The root scan of a corpus of accessor calls with literal keys
Spec ==
  /\ Init(Scripts, {"md"}, {FALSE}, {FALSE})
  /\ [][ScanNext(ScanCalls, ScanComments)]_vars

\* The root scan of a corpus of accessor calls with templated keys
SpecTemplate ==
  /\ Init(Scripts, {"md"}, {FALSE}, {FALSE})
  /\ [][ScanNext(TemplateCalls, TemplateComments)]_vars

\* The root scan and its output under every command line
SpecOutput ==
  /\ Init(Scripts, {"md", "json"}, BOOLEAN, {FALSE})
  /\ [][ScanNext(OutputCalls, OutputComments)]_vars

\* The root scan and its Markdown table
SpecTable ==
  /\ Init(Scripts, {"md"}, {FALSE}, {FALSE})
  /\ [][ScanNext(TableCalls, OutputComments)]_vars

\* The root scan of calls with arguments of every shape
SpecArgs ==
  /\ Init(Scripts, {"md"}, {FALSE}, {FALSE})
  /\ [][ScanNext(ArgCalls, OutputComments)]_vars

\* The run with --dependency
SpecDeps ==
  /\ Init(Scripts, {"md", "json"}, {FALSE}, {TRUE})
  /\ [][ScanNext(DepsCalls, OutputComments) \/ DepsNext(Manifests)]_vars

(***************************************************************************)
(* Properties                                                              *)
(***************************************************************************)

\* A step in which the handler has run on node'
VisitStep == pc = "visit" /\ pc' # "loop" /\ (callIdx' # callIdx \/ pc' # pc)

\* The last step ran the handler on `node` and the handler returned
Visited == pc = "visit" /\ node # NoNode

\* The callee is a member access whose object is the identifier EnvParse or
\* a property access named EnvParse
NamedEnvParse(n) ==
  /\ n.callee.type = "MemberExpression"
  /\ \/ /\ n.callee.object.type = "Identifier"
        /\ n.callee.object.name = "EnvParse"
     \/ /\ n.callee.object.type = "MemberExpression"
        /\ n.callee.object.property.name = "EnvParse"

HasLiteralKey(n) ==
  /\ Len(n.arguments) >= 1
  /\ n.arguments[1].type = "Literal"
  /\ n.arguments[1].value.t = "string"

LiteralKey(n) == n.arguments[1].value.s

\* C1: a call on EnvParse, written as a bare identifier or as a property
\* access, is recognized: with a literal key it leaves a Declaration of its
\* kind under that key in the Registry; a call on any other object leaves
\* the Registry as it was.
C1_AccessorRecognition ==
  [][VisitStep =>
       IF NamedEnvParse(node')
       THEN HasLiteralKey(node') =>
              /\ HasKey(data', LiteralKey(node'))
              /\ Get(data', LiteralKey(node')).type = node'.callee.property.name
       ELSE data' = data]_vars

\* The arguments a Declaration carries: `args`, or the single `arg` of main.js
DeclaredArgs(obj) ==
  IF "args" \in DOMAIN obj THEN obj.args
  ELSE IF obj.arg = Undefined THEN <<>> ELSE <<obj.arg>>

\* C2: the Declaration of a call holds in args exactly the normalized
\* arguments that follow the key, in source order, and not the key.
C2_ArgsFollowKey ==
  (Visited /\ IsEnvParseCall(node) /\ HasLiteralKey(node)) =>
    DeclaredArgs(Get(data, LiteralKey(node)))
      = [i \in 1..(Len(node.arguments) - 1) |-> pushArg(node.arguments[i + 1])]

\* A step in which the handler has registered the Declaration of node'
Registration ==
  /\ pc = "visit"
  /\ pc' = "visit"
  /\ callIdx' = callIdx + 1
  /\ IsEnvParseCall(node')

\* The Declaration the handler builds for node' and the name it is filed under
Built ==
  IF script = "main.js"
  THEN IF node'.arguments[1].type = "TemplateLiteral"
       THEN templateObj(node', comments) ELSE literalObj(node', comments)
  ELSE argsObj(node', comments)

BuiltName == IF script = "main.js" THEN ToStr(Built.key) ELSE ToStr(keyOf(Built))

NameSet(obj) == {obj[i].k : i \in 1..Len(obj)}

\* C3: last write wins.  After a registration the Registry holds one entry
\* per key, the entry of the registered key is the whole record just built
\* (nothing of an earlier record with that key survives), and every other
\* entry is what it was.
C3_LastWriteWins ==
  [][Registration =>
       /\ \A i, j \in 1..Len(data') : data'[i].k = data'[j].k => i = j
       /\ NameSet(data') = NameSet(data) \cup {BuiltName}
       /\ Get(data', BuiltName) = Built
       /\ \A i \in 1..Len(data) :
            data[i].k # BuiltName => Get(data', data[i].k) = data[i].v]_vars

\* C3 witness: in the second source, key A, filed before B, is registered
\* again, with another kind and without the comment of the first source.
C3_Witness ==
  /\ Visited
  /\ srcIdx = 1
  /\ node = Accessor("envStringRequired", <<Lit(Str("A"))>>)
  /\ Len(data) = 2
  /\ data[1].k = "A" /\ data[2].k = "B"
  /\ data[1].v.type = "envStringRequired"
  /\ data[1].v.comment = Undefined

\* C4: a recognized call without arguments produces no Declaration: the
\* Registry is unchanged and the scan goes on.
C4_NoKeyNoDeclaration ==
  [][(VisitStep /\ IsEnvParseCall(node') /\ Len(node'.arguments) = 0) =>
       (data' = data /\ pc' = "visit")]_vars

\* A step in which a source failed to parse
ParseFailure ==
  /\ Len(err') = Len(err) + 1
  /\ err'[Len(err')] = "Failed to parse"

\* C5: a parse failure is contained: the failing source adds no Declaration
\* and no comment, writes no section, and the scan goes on with the next
\* source.
C5_ParseFailureContained ==
  [][ParseFailure =>
       /\ data' = data
       /\ comments' = <<>>
       /\ out' = out
       /\ pc' = "loop"
       /\ srcIdx' = srcIdx + 1]_vars

\* C5 witness: the first source failed to parse and the second one has
\* registered a Declaration.
C5_Witness ==
  /\ Visited
  /\ srcIdx = 1
  /\ err = <<"Failed to parse">>
  /\ Len(data) = 1

\* The fragments and placeholders of a template in the order of their source
\* positions, compared by line, then by column
SourceText(t) ==
  LET quasis == [i \in 1..Len(t.quasis) |->
                   [at |-> t.quasis[i].loc.start, value |-> t.quasis[i].value.cooked]]
      exprs == [i \in 1..Len(t.expressions) |->
                   [at |-> t.expressions[i].loc.start,
                    value |-> "${" \o t.expressions[i].name \o "}"]]
      parts == quasis \o exprs
      Before(a, b) ==
        a.at.line < b.at.line \/ (a.at.line = b.at.line /\ a.at.column < b.at.column)
  IN JoinParts(SortBy(parts,
       [i \in 1..Len(parts) |-> [j \in 1..Len(parts) |-> Before(parts[i], parts[j])]]))

HasTemplateKey(n) ==
  Len(n.arguments) >= 1 /\ n.arguments[1].type = "TemplateLiteral"

\* C6: a recognized call with a templated key is filed under the template's
\* left-to-right source text, whatever the number of interpolations and
\* their lines and columns.
C6_TemplateSourceOrder ==
  (pc \in {"visit", "crashed"} /\ node # NoNode /\ IsEnvParseCall(node)
     /\ HasTemplateKey(node)) =>
    (pc = "visit" /\ HasKey(data, SourceText(node.arguments[1])))

\* The key the source states for a call: its literal, or its template's text
StatedKey(n) ==
  IF HasLiteralKey(n) THEN LiteralKey(n) ELSE SourceText(n.arguments[1])

\* The text after "<key>:" of the first comment that begins with it
Correlated(cs, key) ==
  LET hits == {i \in 1..Len(cs) : StartsWith(cs[i], key \o ":")}
      first == CHOOSE i \in hits : \A j \in hits : i <= j
  IN IF hits = {} THEN Undefined
     ELSE Str(Trim(SubSeq(cs[first], Len(key) + 2, Len(cs[first]))))

\* C7: the comment of a Declaration is the rest of the first comment of its
\* file that begins with "<key>:", and undefined when there is none.
C7_CommentCorrelation ==
  (Visited /\ IsEnvParseCall(node) /\ (HasLiteralKey(node) \/ HasTemplateKey(node))
     /\ HasKey(data, StatedKey(node))) =>
    Get(data, StatedKey(node)).comment = Correlated(comments, StatedKey(node))

\* The keys of a section in the order it shows them
EmittedKeys(section) ==
  IF section.format = "md"
  THEN [i \in 1..Len(section.rows) |-> section.rows[i].ENV]
  ELSE [i \in 1..Len(section.entries) |-> section.entries[i].k]

\* C8: with the sort flag given the section shows the keys in ascending
\* order, without it in the order of their discovery.
C8_OutputOrder ==
  (pc = "done" /\ Len(out) = 1) =>
    EmittedKeys(out[1])
      = IF argvSort THEN DefaultSort(Names(data)) ELSE Names(data)

\* C9: a scan unit with an empty Registry writes no section, in the root
\* scan and in every dependency scan.
C9_EmptyUnitSilent ==
  [][(pc = "loop" /\ Len(data) = 0) => out' = out]_vars

\* The manifest names saddlebag as its own name or as a key of dependencies
\* or peerDependencies, and declares a main entry point
Reportable(json) ==
  /\ \/ json.name = Str(Saddlebag)
     \/ json.dependencies # Undefined
     \/ json.peerDependencies # Undefined
  /\ json.main # Undefined

\* C10: a package directory is scanned exactly when its manifest names
\* saddlebag and declares main; its scan writes a section exactly when its
\* Registry is not empty, headed <name>@<version> and showing the keys of
\* that Registry; nothing else writes a section during the walk.
C10_DependencySections ==
  [][/\ (pc = "deps" /\ packageJson' # Undefined) =>
          (pc' = "open" <=> Reportable(packageJson'))
     /\ (pc = "loop" /\ packageJson # Undefined /\ pc' = "deps") =>
          IF Len(data) = 0 THEN out' = out
          ELSE /\ Len(out') = Len(out) + 1
               /\ SubSeq(out', 1, Len(out)) = out
               /\ "heading" \in DOMAIN out'[Len(out')]
               /\ out'[Len(out')].heading = depName(packageJson)
               /\ {EmittedKeys(out'[Len(out')])[i] :
                     i \in 1..Len(EmittedKeys(out'[Len(out')]))} = NameSet(data)
     /\ (pc = "deps") => out' = out]_vars

\* The rows of the Markdown table the root scan has written
TableRows == IF pc = "done" /\ Len(out) = 1 THEN out[1].rows ELSE <<>>

\* C11: isRequired is true for envStringRequired and envIntRequired and for
\* no other kind, known or not, and a row of the table carries the marker
\* "*" exactly when the kind of its Declaration is one of these two, and an
\* empty cell otherwise.
C11_RequiredMarker ==
  /\ \A n \in TableCalls :
       isRequired(n.callee.property.name)
         <=> n.callee.property.name \in {"envStringRequired", "envIntRequired"}
  /\ \A i \in 1..Len(TableRows) :
       TableRows[i].required
         = IF Get(data, TableRows[i].ENV).type \in {"envStringRequired", "envIntRequired"}
           THEN "*" ELSE ""

\* C11 witness: a table with a row of a required integer, marked, and a row
\* of a kind the scripts do not know, unmarked.
C11_Witness ==
  \E i, j \in 1..Len(TableRows) :
    /\ Get(data, TableRows[i].ENV).type = "envIntRequired"
    /\ TableRows[i].required = "*"
    /\ Get(data, TableRows[j].ENV).type = "envFloat"
    /\ TableRows[j].required = ""

\* The row printMD writes for the entry filed under k
tableRow(k) ==
  IF script = "main.js" THEN row_main(Get(data, k)) ELSE row_part001(k, Get(data, k))

\* C12: the default cell of the row of a Declaration, whatever its kind,
\* shows the first normalized argument written after the key, and is empty
\* when the call has no argument after the key.
C12_DefaultCell ==
  (Visited /\ IsEnvParseCall(node) /\ HasLiteralKey(node)) =>
    tableRow(LiteralKey(node)).default
      = IF Len(node.arguments) >= 2 THEN ToStr(pushArg(node.arguments[2])) ELSE ""

\* The value one argument is to be normalized to: a literal's value, the
\* values of an array's elements, "${x}" for the identifier x, one sentinel
\* for a call, and otherwise the node's type, with its name if it has one
Normalized(argument) ==
  CASE argument.type = "Literal" -> argument.value
    [] argument.type = "ArrayExpression" ->
         Arr([i \in 1..Len(argument.elements) |-> NodeValue(argument.elements[i])])
    [] argument.type = "Identifier" -> Str("${" \o argument.name \o "}")
    [] argument.type = "CallExpression" -> Str("_function_")
    [] OTHER -> Str(IF "name" \in DOMAIN argument
                    THEN argument.type \o "_" \o argument.name ELSE argument.type)

\* The normalized values a Declaration keeps for the arguments after the key
KeptArgs(obj) == IF "args" \in DOMAIN obj THEN Tail(obj.args) ELSE DeclaredArgs(obj)

\* C13: normalization is total and raises no error: visiting a recognized
\* call returns, and its Declaration keeps one normalized value for every
\* argument after the key, in argument order.
C13_NormalizationTotal ==
  [][(VisitStep /\ IsEnvParseCall(node') /\ HasLiteralKey(node')) =>
       /\ pc' = "visit"
       /\ HasKey(data', LiteralKey(node'))
       /\ KeptArgs(Get(data', LiteralKey(node')))
            = [i \in 1..(Len(node'.arguments) - 1) |-> Normalized(node'.arguments[i + 1])]]_vars

====
